---- MODULE Spec2Model ----
(***************************************************************************)
(* Model of api/src/endpoint.ts of chiselstrike: the host side of the      *)
(* channel to the endpoint worker.  toWorker turns the channel into a      *)
(* request/response call interface: it keeps the array `resolvers` of the  *)
(* calls that are not finished, posts a request only when the array holds  *)
(* that request alone, and the `finally` block of each call removes the    *)
(* head of the array and posts the next request.  onmessage settles the    *)
(* promise of the head entry with the reply of the worker.                 *)
(*                                                                         *)
(* Scheduling is that of the JavaScript event loop.  toWorker and          *)
(* endOfRequest run synchronously up to the `await`.  The handlers         *)
(* onmessage, onerror and onmessageerror are events (tasks); the code      *)
(* after `await p` is a promise reaction (a job of the microtask queue),   *)
(* and every job is run before the next event is dispatched.  Other jobs   *)
(* of the host may run before the reaction and may call toWorker or        *)
(* endOfRequest.                                                           *)
(***************************************************************************)
EXTENDS Naturals, Sequences, FiniteSets

\* ---------------------------------------------------------------- bounds
MaxCalls == 3         \* toWorker invocations in one behaviour
MaxNotes == 1         \* endOfRequest invocations in one behaviour
MaxChannelErrors == 1 \* onerror / onmessageerror events in one behaviour
MaxUnsolicited == 1   \* replies the worker sends without a request (SpecAnyWorker)

\* ---------------------------------------------------------------- values
\* JavaScript `undefined`: a field that a message does not carry.
Undefined == "undefined"

\* The commands sent through toWorker (initWorker, callHandler, ...).  The
\* payload is opaque to toWorker; two commands make requests distinguishable.
Cmds == {"initWorker", "callHandler"}
Ids == {1}
Requests == [cmd : Cmds, id : Ids]

\* The message of endOfRequest(id).
EndOfRequestMsg(id) == [cmd |-> "endOfRequest", id |-> id]

\* What the worker replies: {value} on success, {err} on failure.  An err is
\* an Error object (`reject: (err: Error) => void`), which `if (e)` takes as
\* true.
Values == {"v1", "v2"}
Errors == {"E1"}
Replies == {[err |-> Undefined, value |-> v] : v \in Values}
             \cup {[err |-> e, value |-> Undefined] : e \in Errors}

\* A promise created by `new Promise` and not settled yet.
PendingPromise == [state |-> "pending", outcome |-> Undefined]

VARIABLES
    resolvers,   \* the array `resolvers`: entries [id, msg]; id names the
                 \* resolve/reject pair of the promise of call id
    promises,    \* promises[i]: the promise p of the i-th toWorker call
    pc,          \* pc[i]: where the i-th toWorker call is:
                 \*   "await" suspended at `await p`, "ready" its continuation
                 \*   is a job of the microtask queue, "done" finally has run
    microtasks,  \* the jobs of the microtask queue (call ids), oldest first
    outbox,      \* messages posted to the worker it has not taken yet
    inbox,       \* replies of the worker not yet delivered to onmessage
    thrown,      \* number of exceptions thrown out of the event handlers
    \* history, read by the properties only
    submitted,   \* submitted[i]: the msg of the i-th toWorker call
    posts,       \* every call of endpointWorker.postMessage, in order: [call, msg],
                 \* call the id of the entry whose msg it is, 0 for endOfRequest
    settles,     \* the ids of the entries whose resolve / reject onmessage
                 \* called, in order
    replied,     \* every reply the worker sent for a request, in order
    received,    \* number of message events handled by onmessage
    notes,       \* number of endOfRequest calls
    unsolicited, \* number of replies the worker sent without a request
    channelErrors \* number of onerror / onmessageerror events

vars == <<resolvers, promises, pc, microtasks, outbox, inbox, thrown,
          submitted, posts, settles, replied, received, notes, unsolicited, channelErrors>>

hist == <<submitted, posts, settles, replied, received, notes, unsolicited>>

\* ---------------------------------------------------------------- helpers
\* `if (e)`: the values JavaScript treats as false.
Falsy == {Undefined, "null", "", "0", "false", "NaN"}
Truthy(e) == e \notin Falsy

\* resolve(v) / reject(e) of a promise: the first call settles it, any later
\* call is ignored.
Settle(ps, i, st, v) ==
    IF ps[i].state = "pending"
    THEN [ps EXCEPT ![i] = [state |-> st, outcome |-> v]]
    ELSE ps

\* The elements of a set of call ids as a sequence, smallest first: the order
\* in which the reactions of promises settled in one handler are queued.
RECURSIVE SeqOfSet(_)
SeqOfSet(S) ==
    IF S = {} THEN <<>>
    ELSE LET m == CHOOSE x \in S : \A y \in S : x <= y
         IN <<m>> \o SeqOfSet(S \ {m})

\* endpointWorker.postMessage(m)
PostMessage(chan, m) == Append(chan, m)

Init ==
    /\ resolvers = <<>>
    /\ promises = <<>>
    /\ pc = <<>>
    /\ microtasks = <<>>
    /\ outbox = <<>>
    /\ inbox = <<>>
    /\ thrown = 0
    /\ submitted = <<>>
    /\ posts = <<>>
    /\ settles = <<>>
    /\ replied = <<>>
    /\ received = 0
    /\ notes = 0
    /\ unsolicited = 0
    /\ channelErrors = 0

\* ---------------------------------------------------------------- toWorker
\* Mutant: the request is posted whatever the array holds.
PostOnSubmitAlways(rs) == TRUE

\* `if (resolvers.length == 1)` after the push.
PostOnSubmit(rs) == Len(rs) = 1

\* toWorker(msg) up to `await p`: push the resolver, post the request if the
\* array holds it alone, suspend.
ToWorker(msg) ==
    /\ Len(promises) < MaxCalls
    /\ LET i == Len(promises) + 1
           rs == Append(resolvers, [id |-> i, msg |-> msg])
       IN /\ resolvers' = rs
          /\ promises' = Append(promises, PendingPromise)
          /\ pc' = Append(pc, "await")
          /\ submitted' = Append(submitted, msg)
          /\ IF PostOnSubmit(rs)
             THEN /\ outbox' = PostMessage(outbox, rs[1].msg)
                  /\ posts' = Append(posts, [call |-> rs[1].id, msg |-> rs[1].msg])
             ELSE UNCHANGED <<outbox, posts>>
    /\ UNCHANGED <<microtasks, inbox, thrown, settles, replied, received, notes, unsolicited, channelErrors>>

\* Mutant: the finally block empties the array.
ShiftAll(rs) == <<>>

\* Mutant: the finally block removes the newest entry (pop for shift).
ShiftPop(rs) == IF rs = <<>> THEN rs ELSE SubSeq(rs, 1, Len(rs) - 1)

\* Mutant: the finally block leaves the head in the array.
ShiftNothing(rs) == rs

\* `resolvers.shift()`
Shift(rs) == IF rs = <<>> THEN rs ELSE Tail(rs)

\* Mutant: the finally block never posts the next request.
PostOnFinallyNever(rs) == FALSE

\* `if (resolvers.length != 0)` after the shift.
PostOnFinally(rs) == Len(rs) # 0

\* The continuation of toWorker after `await p` settled: the finally block.
Finally ==
    /\ microtasks # <<>>
    /\ LET i == Head(microtasks)
           rs == Shift(resolvers)
       IN /\ resolvers' = rs
          /\ pc' = [pc EXCEPT ![i] = "done"]
          /\ IF PostOnFinally(rs)
             THEN /\ outbox' = PostMessage(outbox, rs[1].msg)
                  /\ posts' = Append(posts, [call |-> rs[1].id, msg |-> rs[1].msg])
             ELSE UNCHANGED <<outbox, posts>>
    /\ microtasks' = Tail(microtasks)
    /\ UNCHANGED <<promises, inbox, thrown, submitted, settles, replied, received, notes,
                   unsolicited, channelErrors>>

\* ---------------------------------------------------------------- onmessage
\* Mutant: the reply is matched to the newest entry, not to the oldest.
OnMessageSettleLast(ps, rs, d) ==
    LET resolver == rs[Len(rs)]
        e == d.err
    IN IF Truthy(e)
       THEN Settle(ps, resolver.id, "rejected", e)
       ELSE Settle(ps, resolver.id, "resolved", d.value)

\* Mutant: the reply settles every entry of the array.
RECURSIVE OnMessageSettleAll(_, _, _)
OnMessageSettleAll(ps, rs, d) ==
    IF rs = <<>> THEN ps
    ELSE LET e == d.err
             qs == OnMessageSettleAll(ps, Tail(rs), d)
         IN IF Truthy(e)
            THEN Settle(qs, rs[1].id, "rejected", e)
            ELSE Settle(qs, rs[1].id, "resolved", d.value)

\* Mutant: the test of d.err is dropped, every reply resolves.
OnMessageSettleResolve(ps, rs, d) ==
    Settle(ps, rs[1].id, "resolved", d.value)

\* The body of onmessage for a non-empty array: settle the promise of
\* resolvers[0] with the reply d.
OnMessageSettle(ps, rs, d) ==
    LET resolver == rs[1]
        e == d.err
    IN IF Truthy(e)
       THEN Settle(ps, resolver.id, "rejected", e)
       ELSE Settle(ps, resolver.id, "resolved", d.value)

\* Mutant: onmessage returns when the array is empty.
OnMessageThrowsNever(rs) == 0

\* With an empty array `resolvers[0]` is undefined, and `resolver.reject(e)` /
\* `resolver.resolve(d.value)` throws a TypeError: the number of exceptions
\* onmessage throws out of the handler.
OnMessageThrows(rs) == IF rs = <<>> THEN 1 ELSE 0

\* The calls suspended at `await p` whose promise ps settled: their
\* continuations become jobs of the microtask queue.
Woken(ps, where) ==
    {i \in 1..Len(ps) : ps[i].state # "pending" /\ where[i] = "await"}

\* endpointWorker.onmessage(event)
OnMessage ==
    /\ microtasks = <<>>
    /\ inbox # <<>>
    /\ LET d == Head(inbox)
       IN IF resolvers = <<>>
          THEN /\ thrown' = thrown + OnMessageThrows(resolvers)
               /\ UNCHANGED <<promises, pc, microtasks, settles>>
          ELSE LET ps == OnMessageSettle(promises, resolvers, d)
                   woken == Woken(ps, pc)
               IN /\ promises' = ps
                  /\ settles' = Append(settles, resolvers[1].id)
                  /\ pc' = [i \in 1..Len(pc) |-> IF i \in woken THEN "ready" ELSE pc[i]]
                  /\ microtasks' = SeqOfSet(woken)
                  /\ UNCHANGED thrown
    /\ inbox' = Tail(inbox)
    /\ received' = received + 1
    /\ UNCHANGED <<resolvers, outbox, submitted, posts, replied, notes, unsolicited,
                   channelErrors>>

\* Mutant: the channel error is attributed to the call at the head.
OnErrorRejectsHead ==
    /\ microtasks = <<>>
    /\ channelErrors < MaxChannelErrors
    /\ channelErrors' = channelErrors + 1
    /\ IF resolvers = <<>>
       THEN /\ thrown' = thrown + 1
            /\ UNCHANGED <<promises, pc, microtasks>>
       ELSE LET ps == Settle(promises, resolvers[1].id, "rejected", "E1")
                woken == {i \in 1..Len(ps) : ps[i].state # "pending" /\ pc[i] = "await"}
            IN /\ promises' = ps
               /\ pc' = [i \in 1..Len(pc) |-> IF i \in woken THEN "ready" ELSE pc[i]]
               /\ microtasks' = SeqOfSet(woken)
               /\ UNCHANGED thrown
    /\ UNCHANGED <<resolvers, outbox, inbox, hist>>

\* endpointWorker.onerror: `throw e`.
OnError ==
    /\ microtasks = <<>>
    /\ channelErrors < MaxChannelErrors
    /\ channelErrors' = channelErrors + 1
    /\ thrown' = thrown + 1
    /\ UNCHANGED <<resolvers, promises, pc, microtasks, outbox, inbox, hist>>

\* endpointWorker.onmessageerror: `throw e`.
OnMessageError ==
    /\ microtasks = <<>>
    /\ channelErrors < MaxChannelErrors
    /\ channelErrors' = channelErrors + 1
    /\ thrown' = thrown + 1
    /\ UNCHANGED <<resolvers, promises, pc, microtasks, outbox, inbox, hist>>

\* ---------------------------------------------------------------- endOfRequest
\* Mutant: the notification is posted only when no call is in the array.
EndOfRequestWhenIdle(id) ==
    /\ notes < MaxNotes
    /\ IF resolvers = <<>>
       THEN /\ outbox' = PostMessage(outbox, EndOfRequestMsg(id))
            /\ posts' = Append(posts, [call |-> 0, msg |-> EndOfRequestMsg(id)])
       ELSE UNCHANGED <<outbox, posts>>
    /\ notes' = notes + 1
    /\ UNCHANGED <<resolvers, promises, pc, microtasks, inbox, thrown,
                   submitted, settles, replied, received, unsolicited, channelErrors>>

\* endOfRequest(id)
EndOfRequest(id) ==
    /\ notes < MaxNotes
    /\ outbox' = PostMessage(outbox, EndOfRequestMsg(id))
    /\ posts' = Append(posts, [call |-> 0, msg |-> EndOfRequestMsg(id)])
    /\ notes' = notes + 1
    /\ UNCHANGED <<resolvers, promises, pc, microtasks, inbox, thrown,
                   submitted, settles, replied, received, unsolicited, channelErrors>>

\* ---------------------------------------------------------------- worker
\* The worker takes the oldest message.  A request is answered with one
\* reply; an endOfRequest notification is answered with nothing.
WorkerReply ==
    /\ outbox # <<>>
    /\ Head(outbox).cmd # "endOfRequest"
    /\ \E r \in Replies :
          /\ inbox' = Append(inbox, r)
          /\ replied' = Append(replied, r)
    /\ outbox' = Tail(outbox)
    /\ UNCHANGED <<resolvers, promises, pc, microtasks, thrown,
                   submitted, posts, settles, received, notes, unsolicited, channelErrors>>

WorkerNote ==
    /\ outbox # <<>>
    /\ Head(outbox).cmd = "endOfRequest"
    /\ outbox' = Tail(outbox)
    /\ UNCHANGED <<resolvers, promises, pc, microtasks, inbox, thrown, hist, channelErrors>>

\* A worker that breaks the protocol: a reply nobody asked for.
WorkerUnsolicited ==
    /\ unsolicited < MaxUnsolicited
    /\ \E r \in Replies : inbox' = Append(inbox, r)
    /\ unsolicited' = unsolicited + 1
    /\ UNCHANGED <<resolvers, promises, pc, microtasks, outbox, thrown,
                   submitted, posts, settles, replied, received, notes, channelErrors>>

\* ---------------------------------------------------------------- specifications
Next ==
    \/ \E msg \in Requests : ToWorker(msg)
    \/ Finally
    \/ OnMessage
    \/ OnError
    \/ OnMessageError
    \/ \E id \in Ids : EndOfRequest(id)
    \/ WorkerReply
    \/ WorkerNote

\* The worker keeps the protocol: one reply per request, nothing else.
Spec == Init /\ [][Next]_vars

NextAnyWorker ==
    \/ \E msg \in Requests : ToWorker(msg)
    \/ Finally
    \/ OnMessage
    \/ WorkerReply
    \/ WorkerUnsolicited

NextLive ==
    \/ \E msg \in Requests : ToWorker(msg)
    \/ Finally
    \/ OnMessage
    \/ \E id \in Ids : EndOfRequest(id)
    \/ WorkerReply
    \/ WorkerNote

\* A channel without error events: the event loop runs every job and delivers
\* every message, and the worker takes every message and answers every request
\* it is sent.
LiveSpec ==
    /\ Init
    /\ [][NextLive]_vars
    /\ WF_vars(Finally)
    /\ WF_vars(OnMessage)
    /\ WF_vars(WorkerReply)
    /\ WF_vars(WorkerNote)

\* The calls and the replies alone, with a worker that may also send replies
\* without a request.
SpecAnyWorker == Init /\ [][NextAnyWorker]_vars

\* ---------------------------------------------------------------- properties
CallIds == 1..Len(promises)

\* The postMessage calls of toWorker (requests), without the notifications.
RequestPosts == SelectSeq(posts, LAMBDA p : p.call # 0)

\* The requests the worker has not taken yet, among the messages of a channel.
RequestsIn(chan) == SelectSeq(chan, LAMBDA m : m.cmd # "endOfRequest")

Settled(i) == promises[i].state # "pending"
InQueue(rs, i) == \E k \in 1..Len(rs) : rs[k].id = i
PostsOf(ps, i) == Len(SelectSeq(ps, LAMBDA p : p.call = i))

\* The outcome a reply carries: an error if it has an err field, a value
\* otherwise.
OutcomeOf(r) ==
    IF r.err # Undefined
    THEN [state |-> "rejected", outcome |-> r.err]
    ELSE [state |-> "resolved", outcome |-> r.value]

\* The steps of the handlers, told by what they count.
IsOnMessage == received' = received + 1
IsFinally == \E i \in CallIds : pc[i] = "ready" /\ pc'[i] = "done"
IsToWorker == Len(submitted') = Len(submitted) + 1
IsEndOfRequest == notes' = notes + 1

\* C1: single-flight.  The requests toWorker posted and that no processed
\* reply has answered are at most one: the worker holds at most one request or
\* one reply of it, the posts exceed the replies processed by at most one, and
\* as long as no reply has been processed the calls made caused exactly one
\* post.
C1_SingleFlight ==
    /\ Len(RequestPosts) <= received + 1
    /\ received <= Len(RequestPosts)
    /\ Len(RequestsIn(outbox)) + Len(inbox) <= 1
    /\ (received = 0 /\ Len(submitted) >= 1) => Len(RequestPosts) = 1

\* Three calls were made before any reply was processed, and one was posted.
C1_Witness ==
    /\ Len(submitted) >= 3
    /\ received = 0
    /\ Len(RequestPosts) = 1
    /\ Len(replied) = 1

\* C2: FIFO correlation.  With a worker that answers every request once and
\* in the order of the posts, the promise of the i-th call settles with the
\* outcome of the i-th reply.
C2_FifoCorrelation ==
    \A i \in CallIds :
        Settled(i) => /\ i <= Len(replied)
                      /\ promises[i] = OutcomeOf(replied[i])

\* Three calls settled, with replies that differ from one call to the next.
C2_Witness ==
    /\ Len(promises) >= 3
    /\ \A i \in 1..3 : Settled(i)
    /\ promises[1] # promises[2]
    /\ promises[2] # promises[3]

\* C3: error/success fidelity.  A reply processed with a non-empty queue
\* rejects the head call with its err if it carries one, and resolves it with
\* its value if it carries none.
C3_Fidelity ==
    [][(IsOnMessage /\ resolvers # <<>>) =>
        LET d == Head(inbox)
            i == resolvers[1].id
        IN IF d.err # Undefined
           THEN /\ promises'[i].state = "rejected"
                /\ promises'[i].outcome = d.err
           ELSE /\ promises'[i].state = "resolved"
                /\ promises'[i].outcome = d.value]_vars

\* One call was rejected with the error E1 and another resolved with the value v2.
C3_Witness ==
    \E i, j \in CallIds :
        /\ promises[i] = [state |-> "rejected", outcome |-> "E1"]
        /\ promises[j] = [state |-> "resolved", outcome |-> "v2"]

\* C4: exactly one settlement per call.  Every call is pending, resolved or
\* rejected; onmessage calls the resolve / reject of a call at most once; and a
\* settled call keeps its outcome, is never suspended at its await again, is
\* never posted to the worker again and never enters the queue again.
C4_OneSettlement ==
    /\ [](\A i \in CallIds :
            /\ promises[i].state \in {"pending", "resolved", "rejected"}
            /\ promises[i].state = "pending" <=> promises[i].outcome = Undefined
            /\ Len(SelectSeq(settles, LAMBDA k : k = i)) <= 1
            /\ Settled(i) <=> Len(SelectSeq(settles, LAMBDA k : k = i)) = 1
            /\ pc[i] = "await" <=> ~Settled(i))
    /\ [][\A i \in CallIds :
            Settled(i) =>
                /\ promises'[i] = promises[i]
                /\ pc'[i] # "await"
                /\ PostsOf(posts', i) = PostsOf(posts, i)
                /\ ~InQueue(resolvers, i) => ~InQueue(resolvers', i)]_vars

\* A resolved call and a rejected call have left the queue while a later call
\* is pending and posted.
C4_Witness ==
    \E i, j, k \in CallIds :
        /\ promises[i].state = "resolved" /\ pc[i] = "done"
        /\ promises[j].state = "rejected" /\ pc[j] = "done"
        /\ promises[k].state = "pending" /\ PostsOf(posts, k) = 1
        /\ received >= 2

\* C5: no cross-talk.  A step changes the promise of at most one call, the
\* head of the queue, in onmessage; the promise and the position of every
\* other call, queued or settled, are left as they were.  The finally block
\* of a call changes the promise of no call and the position of no other call.
C5_NoCrossTalk ==
    [][/\ \A i \in CallIds :
            promises'[i] # promises[i] =>
                /\ IsOnMessage
                /\ resolvers # <<>>
                /\ i = resolvers[1].id
                /\ \A j \in CallIds \ {i} :
                      promises'[j] = promises[j] /\ pc'[j] = pc[j]
       /\ IsFinally =>
            /\ \A j \in CallIds : promises'[j] = promises[j]
            /\ \A j \in CallIds \ {Head(microtasks)} : pc'[j] = pc[j]]_vars

\* The second call has just been settled, with another outcome than the
\* first, which is finished, and the third call is queued behind it, pending.
C5_Witness ==
    /\ Len(promises) >= 3
    /\ pc[1] = "done" /\ pc[2] = "ready" /\ pc[3] = "await"
    /\ promises[1] # promises[2]
    /\ InQueue(resolvers, 3)
    /\ PostsOf(posts, 3) = 0

\* C6: protocol violation.  A reply handled while the queue is empty throws
\* out of onmessage; the reply is consumed, no promise changes, no job is
\* queued and nothing is posted, so that no later call can be settled by it.
\* Every reply handled has either called the resolver of the head or thrown.
C6_ProtocolViolation ==
    /\ [](Len(settles) + thrown = received + channelErrors)
    /\ [][(IsOnMessage /\ resolvers = <<>>) =>
            /\ thrown' = thrown + 1
            /\ inbox' = Tail(inbox)
            /\ UNCHANGED <<resolvers, promises, pc, microtasks, settles, outbox, posts>>]_vars

\* A reply was handled with an empty queue and thrown; the call made after it
\* is pending, and the reply to its own request waits in the channel.
C6_Witness ==
    /\ thrown = 1
    /\ received = 1
    /\ Len(promises) = 1
    /\ ~Settled(1)
    /\ Len(replied) = 1
    /\ inbox = <<replied[1]>>

\* C7: fire-and-forget.  endOfRequest can be called in every state, posts its
\* message to the worker in the same step, adds nothing to the queue, and
\* leaves the queue, the promises and the position of every call unchanged.
C7_FireAndForget ==
    /\ [](notes < MaxNotes => ENABLED (\E id \in Ids : EndOfRequest(id)))
    /\ [][IsEndOfRequest =>
            /\ \E id \in Ids :
                  /\ outbox' = Append(outbox, EndOfRequestMsg(id))
                  /\ posts' = Append(posts, [call |-> 0, msg |-> EndOfRequestMsg(id)])
            /\ UNCHANGED <<resolvers, promises, pc, microtasks, inbox, settles,
                           submitted>>]_vars

\* endOfRequest was called while the request of the first call was
\* unanswered and a second call was queued.
C7_Witness ==
    /\ notes = 1
    /\ received = 0
    /\ Len(resolvers) = 2
    /\ Len(posts) = 2
    /\ posts[1].call = 1
    /\ posts[2].call = 0

\* C8: eventual settlement.  When the event loop runs its jobs and the worker
\* answers every request, every call made is posted to the worker, settled and
\* finished.
C8_EventualSettlement ==
    \A i \in 1..MaxCalls :
        (Len(promises) >= i) ~>
            (PostsOf(posts, i) = 1 /\ Settled(i) /\ pc[i] = "done")

\* Three calls were made, and the third, queued behind the others, has been
\* posted, settled and finished; the queue is empty.
C8_Witness ==
    /\ Len(promises) >= 3
    /\ \A i \in 1..3 : PostsOf(posts, i) = 1 /\ Settled(i) /\ pc[i] = "done"
    /\ resolvers = <<>>

\* C9: strict FIFO settlement order.  A call is never settled while a call
\* made before it is pending: the calls settle in the order 1, 2, 3, ...
C9_FifoOrder ==
    /\ \A i, j \in CallIds : (i < j /\ Settled(j)) => Settled(i)
    /\ settles = [k \in 1..Len(settles) |-> k]

\* The first two calls are settled, in that order, and the third is pending.
C9_Witness ==
    /\ Len(promises) >= 3
    /\ settles = <<1, 2>>
    /\ Settled(1) /\ Settled(2) /\ ~Settled(3)

\* C10: an application error is local.  An error reply leaves the queue and
\* the calls behind the head as they are; the finally block of a call, rejected
\* or resolved alike, removes that call from the head of the queue and posts the
\* request of the call behind it, if there is one; a call that is not finished
\* is in the queue.
C10_ErrorIsLocal ==
    /\ [](\A i \in CallIds : pc[i] # "done" => InQueue(resolvers, i))
    /\ [][/\ (IsOnMessage /\ resolvers # <<>> /\ Head(inbox).err # Undefined) =>
               /\ resolvers' = resolvers
               /\ \A k \in 2..Len(resolvers) :
                     promises'[resolvers[k].id] = PendingPromise
          /\ \A i \in CallIds :
               (pc[i] = "ready" /\ pc'[i] = "done") =>
                   /\ resolvers # <<>>
                   /\ resolvers[1].id = i
                   /\ resolvers' = Tail(resolvers)
                   /\ promises' = promises
                   /\ IF Len(resolvers) >= 2
                      THEN /\ posts' = Append(posts, [call |-> resolvers[2].id,
                                                      msg |-> resolvers[2].msg])
                           /\ outbox' = Append(outbox, resolvers[2].msg)
                      ELSE UNCHANGED <<posts, outbox>>]_vars

\* The first call was rejected and is finished; the second call, queued
\* behind it, was posted after it and has been resolved.
C10_Witness ==
    /\ Len(promises) >= 2
    /\ promises[1].state = "rejected" /\ pc[1] = "done"
    /\ PostsOf(posts, 2) = 1
    /\ promises[2].state = "resolved"

\* The steps of the error handlers, told by what they count.
IsChannelError == channelErrors' = channelErrors + 1

\* The call at the head of the queue is pending: its request is the one the
\* worker has not answered, or whose answer has not been handled.
HeadPending == resolvers # <<>> /\ ~Settled(resolvers[1].id)

\* C11: no timeout, no cancellation.  While the call at the head is pending,
\* it is the only call posted among those of the queue and every call of the
\* queue is pending; and every step but the handling of a reply leaves the
\* calls of the queue in the queue, in their order, pending, and posts no
\* request.
C11_NoTimeout ==
    /\ [](HeadPending =>
            /\ PostsOf(posts, resolvers[1].id) = 1
            /\ \A k \in 1..Len(resolvers) : ~Settled(resolvers[k].id)
            /\ \A k \in 2..Len(resolvers) : PostsOf(posts, resolvers[k].id) = 0)
    /\ [][(HeadPending /\ ~IsOnMessage) =>
            /\ Len(resolvers') >= Len(resolvers)
            /\ SubSeq(resolvers', 1, Len(resolvers)) = resolvers
            /\ \A k \in 1..Len(resolvers) :
                  promises'[resolvers[k].id] = PendingPromise
            /\ SelectSeq(posts', LAMBDA p : p.call # 0) = RequestPosts]_vars

\* No reply was sent for the request of the first call; two calls were made
\* behind it, a notification was sent and a channel error was raised.
C11_Witness ==
    /\ Len(resolvers) = 3
    /\ replied = <<>>
    /\ received = 0
    /\ notes = 1
    /\ channelErrors = 1
    /\ \A k \in 1..3 : ~Settled(resolvers[k].id)

\* C12: channel errors are fatal and unattributed.  An onerror or
\* onmessageerror event throws, and changes no promise, no position of a call,
\* not the queue, and posts nothing.
C12_ChannelErrors ==
    [][IsChannelError =>
        /\ thrown' = thrown + 1
        /\ UNCHANGED <<resolvers, promises, pc, microtasks, outbox, inbox,
                       posts, settles>>]_vars

\* A channel error was raised; the queue holds a posted call and a queued
\* call, both pending.
C12_Witness ==
    /\ channelErrors = 1
    /\ thrown = 1
    /\ Len(resolvers) = 2
    /\ ~Settled(resolvers[1].id) /\ ~Settled(resolvers[2].id)
    /\ Len(RequestPosts) = 1

\* A call is dispatched: its request was posted and no reply to it has been
\* handled.
Dispatched(i) == PostsOf(posts, i) >= 1 /\ ~Settled(i)

\* C13 as stated: whenever the queue is not empty its head is the dispatched
\* request, and no other element is dispatched.
C13_Original ==
    resolvers # <<>> =>
        /\ Dispatched(resolvers[1].id)
        /\ \A k \in 2..Len(resolvers) : ~Dispatched(resolvers[k].id)

\* C13 (I1), amended: whenever the queue is not empty, its head was posted
\* once and either is pending, and its request is the one posted and not
\* answered, or is settled, no request is outstanding and the finally block
\* that removes it is the job to run next; no element behind the head was
\* posted or is settled.
C13_HeadDispatched ==
    resolvers # <<>> =>
        LET h == resolvers[1].id
        IN /\ PostsOf(posts, h) = 1
           /\ RequestPosts[Len(RequestPosts)].call = h
           /\ ~Settled(h) => /\ Len(RequestPosts) = received + 1
                             /\ microtasks = <<>>
           /\ Settled(h) => /\ Len(RequestPosts) = received
                            /\ microtasks = <<h>>
                            /\ pc[h] = "ready"
           /\ \A k \in 2..Len(resolvers) :
                 /\ PostsOf(posts, resolvers[k].id) = 0
                 /\ ~Settled(resolvers[k].id)

\* The head is settled and not removed yet, with a call queued behind it.
C13_Witness ==
    /\ Len(resolvers) >= 2
    /\ Settled(resolvers[1].id)
    /\ ~Settled(resolvers[2].id)

\* The worker is idle: every request posted has had its reply handled.
WorkerIdle == Len(RequestPosts) = received

\* C14 as stated: toWorker appends the call and posts its request in the same
\* step exactly when the queue was empty, and the queue was empty exactly
\* when the worker was idle.
C14_Original ==
    [][IsToWorker =>
        LET i == Len(promises) + 1
            e == [id |-> i, msg |-> submitted'[i]]
        IN /\ resolvers' = Append(resolvers, e)
           /\ (resolvers = <<>>) <=> WorkerIdle
           /\ IF resolvers = <<>>
              THEN /\ posts' = Append(posts, [call |-> i, msg |-> e.msg])
                   /\ outbox' = Append(outbox, e.msg)
              ELSE UNCHANGED <<posts, outbox>>]_vars

\* C14, amended: toWorker appends the call at the tail and posts its request
\* in the same step exactly when the queue was empty, and posts nothing
\* otherwise.  An empty queue means an idle worker; the worker is idle with a
\* non-empty queue only when the head is settled and its finally block is the
\* job to run next.
C14_DispatchOnSubmit ==
    [][IsToWorker =>
        LET i == Len(promises) + 1
            e == [id |-> i, msg |-> submitted'[i]]
        IN /\ resolvers' = Append(resolvers, e)
           /\ IF resolvers = <<>>
              THEN /\ posts' = Append(posts, [call |-> i, msg |-> e.msg])
                   /\ outbox' = Append(outbox, e.msg)
                   /\ WorkerIdle
              ELSE /\ UNCHANGED <<posts, outbox>>
                   /\ WorkerIdle => /\ Settled(resolvers[1].id)
                                    /\ microtasks = <<resolvers[1].id>>]_vars

\* The second call was made after the first was finished and was posted at
\* once; the third was made behind it and is not posted.
C14_Witness ==
    /\ Len(promises) = 3
    /\ pc = <<"done", "await", "await">>
    /\ Len(resolvers) = 2
    /\ PostsOf(posts, 2) = 1
    /\ PostsOf(posts, 3) = 0
    /\ received = 1

\* A settled call is still in the queue.
SettledInQueue == \E k \in 1..Len(resolvers) : Settled(resolvers[k].id)

\* A call that is not settled is in the queue.
UnsettledInQueue == \E k \in 1..Len(resolvers) : ~Settled(resolvers[k].id)

\* C15 as stated: the settled head is removed at once, so that no toWorker
\* call, notification or reply is processed while a settled call is in the
\* queue, and the worker is never idle while an unsettled call is queued.
C15_Original ==
    /\ [][(IsToWorker \/ IsEndOfRequest \/ IsOnMessage) => ~SettledInQueue]_vars
    /\ [](UnsettledInQueue => ~WorkerIdle)

\* C15, amended: onmessage settles the head and leaves it in the queue; the
\* finally block of the settled call, the next job, removes that head and
\* then, if the queue is not empty, posts the request of the new head; no
\* reply is processed while a settled call is in the queue; and the worker is
\* idle while an unsettled call is queued only until that finally block runs.
C15_ReplyOrder ==
    /\ [][(IsOnMessage /\ resolvers # <<>>) =>
            /\ ~SettledInQueue
            /\ promises'[resolvers[1].id] = OutcomeOf(Head(inbox))
            /\ microtasks' = <<resolvers[1].id>>
            /\ UNCHANGED <<resolvers, posts, outbox>>]_vars
    /\ [][IsFinally =>
            /\ resolvers # <<>>
            /\ Settled(resolvers[1].id)
            /\ resolvers' = Tail(resolvers)
            /\ ~SettledInQueue'
            /\ IF Len(resolvers) >= 2
               THEN /\ posts' = Append(posts, [call |-> resolvers[2].id,
                                               msg |-> resolvers[2].msg])
                    /\ outbox' = Append(outbox, resolvers[2].msg)
               ELSE UNCHANGED <<posts, outbox>>]_vars
    /\ []((UnsettledInQueue /\ WorkerIdle) =>
            /\ Settled(resolvers[1].id)
            /\ microtasks = <<resolvers[1].id>>)

\* The first call is settled and still at the head of the queue, the worker
\* is idle, two calls are queued behind and a notification was posted.
C15_Witness ==
    /\ Len(resolvers) = 3
    /\ Settled(resolvers[1].id)
    /\ microtasks = <<resolvers[1].id>>
    /\ WorkerIdle
    /\ notes = 1

\* The state of a call: Settled once its promise is settled, Dispatched once
\* its request is posted, Queued before.
CallState(ps, po, i) ==
    IF ps[i].state # "pending" THEN "Settled"
    ELSE IF PostsOf(po, i) >= 1 THEN "Dispatched"
    ELSE "Queued"

\* C16: per-call state machine.  A call is settled only after its request was
\* posted, once; a call made with an empty queue is Dispatched in its toWorker
\* step and a call made with a non-empty queue is Queued; a Queued call
\* becomes Dispatched only in the finally block that removes the settled head
\* before it, a Dispatched call becomes Settled only in onmessage, and there
\* is no other change of state.
C16_StateMachine ==
    /\ [](\A i \in CallIds : Settled(i) => PostsOf(posts, i) = 1)
    /\ [][IsToWorker =>
            CallState(promises', posts', Len(promises) + 1)
                = IF resolvers = <<>> THEN "Dispatched" ELSE "Queued"]_vars
    /\ [][\A i \in CallIds :
            LET a == CallState(promises, posts, i)
                b == CallState(promises', posts', i)
            IN a # b =>
                 \/ /\ a = "Queued" /\ b = "Dispatched"
                    /\ IsFinally
                    /\ Len(resolvers) >= 2
                    /\ resolvers[2].id = i
                    /\ Settled(resolvers[1].id)
                    /\ resolvers' = Tail(resolvers)
                 \/ /\ a = "Dispatched" /\ b = "Settled"
                    /\ IsOnMessage]_vars

\* The first two calls are settled and finished, and the third is dispatched.
C16_Witness ==
    /\ Len(promises) = 3
    /\ pc = <<"done", "done", "await">>
    /\ received = 2
    /\ CallState(promises, posts, 3) = "Dispatched"
    /\ Len(replied) = 2

\* Calls were made, and every one has had its reply and run its finally block.
AllDone == promises # <<>> /\ \A i \in CallIds : pc[i] = "done"

\* C17: quiescence.  Once every call made is finished, the queue is empty, no
\* request is at the worker or unanswered and no reply waits, whatever the
\* replies were; and the next toWorker call posts its request in its own step.
C17_Quiescence ==
    /\ [](AllDone =>
            /\ resolvers = <<>>
            /\ microtasks = <<>>
            /\ WorkerIdle
            /\ RequestsIn(outbox) = <<>>
            /\ inbox = <<>>)
    /\ [][(AllDone /\ IsToWorker) =>
            LET i == Len(promises) + 1
            IN /\ posts' = Append(posts, [call |-> i, msg |-> submitted'[i]])
               /\ outbox' = Append(outbox, submitted'[i])]_vars

\* Two calls were made and are finished, the last of them rejected.
C17_Witness ==
    /\ Len(promises) = 2
    /\ AllDone
    /\ promises[2].state = "rejected"
    /\ resolvers = <<>>

\* C18: each request is posted exactly once and in submission order.  The
\* requests posted are those of the calls 1, 2, ..., k in that order, each
\* with the msg of its call, and the request of a call is posted only when the
\* replies to all the requests before it have been handled.
C18_PostedInOrder ==
    /\ Len(RequestPosts) <= Len(submitted)
    /\ \A k \in 1..Len(RequestPosts) :
          /\ RequestPosts[k].call = k
          /\ RequestPosts[k].msg = submitted[k]
    /\ \A i \in CallIds : PostsOf(posts, i) <= 1
    /\ Len(RequestPosts) >= 1 => received >= Len(RequestPosts) - 1

\* Three calls with msgs that differ were made; two requests were posted,
\* the second after the reply to the first, and the third is not posted.
C18_Witness ==
    /\ Len(submitted) = 3
    /\ submitted[1] # submitted[2]
    /\ submitted[2] # submitted[3]
    /\ Len(RequestPosts) = 2
    /\ received = 1

\* The calls whose finally block has not run.
Unfinished == {i \in CallIds : pc[i] # "done"}

\* C19: the continuation of a call removes its own entry.  When the finally
\* block of a call runs, the queue is not empty, its head is the entry that
\* call pushed, that call is settled, and the shift removes this entry and no
\* other; the queue holds exactly the calls whose finally block has not run,
\* in the order they were made.
C19_OwnEntry ==
    /\ [](/\ Len(resolvers) = Cardinality(Unfinished)
          /\ \A k \in 1..Len(resolvers) :
                /\ resolvers[k].id \in Unfinished
                /\ resolvers[k].msg = submitted[resolvers[k].id]
                /\ k > 1 => resolvers[k - 1].id < resolvers[k].id)
    /\ [][\A i \in CallIds :
            (pc[i] = "ready" /\ pc'[i] = "done") =>
                /\ resolvers # <<>>
                /\ resolvers[1].id = i
                /\ Settled(i)
                /\ resolvers' = Tail(resolvers)
                /\ \A k \in 2..Len(resolvers) : ~Settled(resolvers[k].id)]_vars

\* The finally block of the first call has run; the second call is settled
\* and at the head, its finally block is the next job, and the third call is
\* behind it.
C19_Witness ==
    /\ Len(promises) = 3
    /\ pc = <<"done", "ready", "await">>
    /\ Len(resolvers) = 2
    /\ resolvers[1].id = 2
    /\ resolvers[2].id = 3

====
